---- MODULE Spec2Model ----
(***************************************************************************)
(* A model of src/process_documents.py: the heading-aware PDF chunker      *)
(* (parse_pdfs), the domain classifier (detect_domain), the domain-aware   *)
(* scorer (apply_intelligent_scoring) and the pipeline driver (main).      *)
(*                                                                         *)
(* Text is modelled by TLA+ strings, on which Len, \o and SubSeq act as on *)
(* sequences of characters.  Font sizes are integers in hundredths of a    *)
(* point, rounded sizes are integers in tenths of a point, and scores are  *)
(* integers in hundredths.                                                 *)
(***************************************************************************)
EXTENDS Integers, Sequences, FiniteSets, TLC

VARIABLES
    pc,               \* position of the running function
    pdf_files,        \* main: the PDFs of the input directory, in listing order
    descriptor,       \* main: the JSON descriptor of the input directory
    oracle,           \* the embedding model's similarity table (external)
    persona,          \* main: persona
    task_description, \* main: task_description
    query,            \* main / detect_domain / scorer: query
    domain,           \* main: domain
    all_chunks,       \* parse_pdfs: all_chunks
    doc_idx,          \* parse_pdfs: index of pdf_path in pdf_paths (1-based)
    page_num,         \* parse_pdfs: page_num of enumerate(doc) (0-based)
    block_idx,        \* parse_pdfs: index of block in blocks (1-based)
    body_font_size,   \* parse_pdfs: body_font_size (tenths of a point)
    current_heading,  \* parse_pdfs: current_heading
    current_text,     \* parse_pdfs: current_text
    log,              \* parse_pdfs: documents named by the "Error parsing" prints
    chunks,           \* apply_intelligent_scoring: its chunks argument
    final_results,    \* apply_intelligent_scoring / main: final_results
    output            \* main: the JSON document written to output_file

vars == << pc, pdf_files, descriptor, oracle, persona, task_description, query,
           domain, all_chunks, doc_idx, page_num, block_idx, body_font_size,
           current_heading, current_text, log, chunks, final_results, output >>

-----------------------------------------------------------------------------
(* Python's string operations *)

UpperAlpha == "ABCDEFGHIJKLMNOPQRSTUVWXYZ"
LowerAlpha == "abcdefghijklmnopqrstuvwxyz"

CharAt(s, i) == SubSeq(s, i, i)

\* the lowercase letter of every uppercase letter
LowerMap ==
    [c \in {CharAt(UpperAlpha, i) : i \in 1..Len(UpperAlpha)} |->
        CharAt(LowerAlpha, CHOOSE i \in 1..Len(UpperAlpha) : CharAt(UpperAlpha, i) = c)]

\* one character of str.lower()
LowerChar(c) == IF c \in DOMAIN LowerMap THEN LowerMap[c] ELSE c

RECURSIVE Lower(_)
\* str.lower()
Lower(s) ==
    IF Len(s) = 0 THEN ""
    ELSE LowerChar(CharAt(s, 1)) \o Lower(SubSeq(s, 2, Len(s)))

\* kw in s
Contains(s, kw) ==
    \E i \in 1..(Len(s) - Len(kw) + 1) : SubSeq(s, i, i + Len(kw) - 1) = kw

\* any(kw in s for kw in kws); s is evaluated once
ContainsAny(s, kws) == \E t \in {s} : \E kw \in kws : Contains(t, kw)

\* the number of kw in kws with kw in s; s is evaluated once
CountIn(s, kws) == Cardinality(UNION {{kw \in kws : Contains(t, kw)} : t \in {s}})

IsSpace(c) == c \in {" ", "\t", "\n"}

RECURSIVE LStrip(_, _)
LStrip(s, drop) ==
    IF Len(s) > 0 /\ CharAt(s, 1) \in drop THEN LStrip(SubSeq(s, 2, Len(s)), drop) ELSE s

RECURSIVE RStrip(_, _)
RStrip(s, drop) ==
    IF Len(s) > 0 /\ CharAt(s, Len(s)) \in drop THEN RStrip(SubSeq(s, 1, Len(s) - 1), drop) ELSE s

\* str.strip(): whitespace removed at both ends
Strip(s) == RStrip(LStrip(s, {" ", "\t", "\n"}), {" ", "\t", "\n"})

\* str.strip(":"): colons removed at both ends
StripColons(s) == RStrip(LStrip(s, {":"}), {":"})

\* len(s.split()): the number of maximal runs of non-whitespace characters
WordCount(s) ==
    Cardinality({i \in 1..Len(s) :
        /\ ~IsSpace(CharAt(s, i))
        /\ (i = 1 \/ IsSpace(CharAt(s, i - 1)))})

\* s.endswith(suffix)
EndsWith(s, suffix) ==
    Len(s) >= Len(suffix) /\ SubSeq(s, Len(s) - Len(suffix) + 1, Len(s)) = suffix

RECURSIVE Join(_, _)
\* sep.join(parts)
Join(parts, sep) ==
    IF Len(parts) = 0 THEN ""
    ELSE IF Len(parts) = 1 THEN parts[1]
    ELSE parts[1] \o sep \o Join(Tail(parts), sep)

\* os.path.basename(path): what follows the last "/"
Basename(path) ==
    LET slashes == {i \in 1..Len(path) : CharAt(path, i) = "/"}
        last == IF slashes = {} THEN 0 ELSE CHOOSE i \in slashes : \A j \in slashes : j <= i
    IN SubSeq(path, last + 1, Len(path))

-----------------------------------------------------------------------------
(* detect_domain *)

travel_keywords == {"trip", "travel", "vacation", "itinerary", "friends"}
culinary_keywords == {"menu", "dish", "recipe", "vegetarian", "buffet"}
hr_forms_keywords == {"form", "onboarding", "compliance", "hr", "signature", "fillable"}

Domains == {"travel", "culinary", "hr_forms", "general"}

\* detect_domain with the culinary test ahead of the travel test
detect_domain_culinary_first(q) ==
    LET query_lower == Lower(q) IN
    IF ContainsAny(query_lower, culinary_keywords) THEN "culinary"
    ELSE IF ContainsAny(query_lower, travel_keywords) THEN "travel"
    ELSE IF ContainsAny(query_lower, hr_forms_keywords) THEN "hr_forms"
    ELSE "general"

detect_domain(q) ==
    LET query_lower == Lower(q) IN
    IF ContainsAny(query_lower, travel_keywords) THEN "travel"
    ELSE IF ContainsAny(query_lower, culinary_keywords) THEN "culinary"
    ELSE IF ContainsAny(query_lower, hr_forms_keywords) THEN "hr_forms"
    ELSE "general"

-----------------------------------------------------------------------------
(* parse_pdfs: the data it reads *)

\* A span is [size, text]; a line is the sequence of its spans (line['spans']);
\* a block is [has_lines, lines] (an image block has no 'lines' key); a page is
\* [readable, blocks] (get_text raises on an unreadable page); a document is
\* [path, openable, pages] (fitz.open raises on a document that is not openable).

MinWords == 20
HeadingMaxWords == 15
HeadingMargin == 5

heading_stop_list == {"instructions", "ingredients", "directions", "notes"}

\* round(size, 1) of a size given in hundredths, in tenths: to the nearest tenth,
\* an exact tie (x.x5, exactly representable only as x.25 or x.75) to the even tenth
Round1(size) ==
    LET q == size \div 10
        r == size % 10
    IN IF r < 5 THEN q
       ELSE IF r > 5 THEN q + 1
       ELSE IF q % 2 = 0 THEN q ELSE q + 1

RECURSIVE Flatten(_)
\* the concatenation of a sequence of sequences
Flatten(ss) == IF Len(ss) = 0 THEN <<>> ELSE Head(ss) \o Flatten(Tail(ss))

\* the spans of a block, over its lines in order
BlockSpans(block) == Flatten(block.lines)

\* [span['size'] for b in blocks if 'lines' in b for l in b['lines'] for span in l['spans']]
FontSizes(blocks) ==
    LET spans == Flatten([i \in 1..Len(blocks) |->
                     IF blocks[i].has_lines THEN BlockSpans(blocks[i]) ELSE <<>>])
    IN [i \in 1..Len(spans) |-> spans[i].size]

RECURSIVE CounterOf(_, _)
\* Counter(items): the (key, count) pairs in the order the keys were first inserted
CounterOf(items, acc) ==
    IF Len(items) = 0 THEN acc
    ELSE LET k == Head(items) IN
         IF \E i \in 1..Len(acc) : acc[i].key = k
         THEN CounterOf(Tail(items),
                  [i \in 1..Len(acc) |->
                      IF acc[i].key = k THEN [key |-> k, count |-> acc[i].count + 1]
                      ELSE acc[i]])
         ELSE CounterOf(Tail(items), Append(acc, [key |-> k, count |-> 1]))

RECURSIVE MaxByCount(_, _)
\* max(items, key=count): the first item, in iteration order, of the greatest count
MaxByCount(items, best) ==
    IF Len(items) = 0 THEN best
    ELSE MaxByCount(Tail(items), IF Head(items).count > best.count THEN Head(items) ELSE best)

RECURSIVE MaxByCountLast(_, _)
\* max that keeps the last item of the greatest count
MaxByCountLast(items, best) ==
    IF Len(items) = 0 THEN best
    ELSE MaxByCountLast(Tail(items), IF Head(items).count >= best.count THEN Head(items) ELSE best)

\* most_common(1) that resolves a tie in favour of the size inserted last
MostCommonLast(font_sizes) ==
    LET counter == CounterOf([i \in 1..Len(font_sizes) |-> Round1(font_sizes[i])], <<>>)
    IN MaxByCountLast(Tail(counter), Head(counter)).key

\* Counter(round(s, 1) for s in font_sizes).most_common(1)[0][0], font_sizes not empty
MostCommon(font_sizes) ==
    LET counter == CounterOf([i \in 1..Len(font_sizes) |-> Round1(font_sizes[i])], <<>>)
    IN MaxByCount(Tail(counter), Head(counter)).key

\* " ".join(span['text'] for line in block['lines'] for span in line['spans']).strip()
BlockText(block) ==
    LET spans == BlockSpans(block)
    IN Strip(Join([i \in 1..Len(spans) |-> spans[i].text], " "))

\* block['lines'][0]['spans'][0] raises IndexError
FirstSpanMissing(block) == Len(block.lines) = 0 \/ Len(block.lines[1]) = 0

\* round(block['lines'][0]['spans'][0]['size'], 1)
BlockFontSize(block) == Round1(block.lines[1][1].size)

\* is_heading without the stop list
IsHeadingNoStopList(block_text, block_font_size, body) ==
    /\ block_font_size > body + HeadingMargin
    /\ WordCount(block_text) < HeadingMaxWords
    /\ ~EndsWith(block_text, ".")

\* is_heading
IsHeading(block_text, block_font_size, body) ==
    /\ block_font_size > body + HeadingMargin
    /\ WordCount(block_text) < HeadingMaxWords
    /\ ~EndsWith(block_text, ".")
    /\ StripColons(Lower(block_text)) \notin heading_stop_list

Chunk(title, text, document, page) ==
    [title |-> title, text |-> text, document |-> document, page |-> page]

\* the flush that emits an accumulator of MinWords words too
FlushedAtLeast(cs, heading, text, doc_name, page) ==
    IF Len(text) > 0 /\ WordCount(Join(text, " ")) >= MinWords
    THEN Append(cs, Chunk(heading, Join(text, " "), doc_name, page))
    ELSE cs

\* if current_text and len(" ".join(current_text).split()) > 20: all_chunks.append({...})
Flushed(cs, heading, text, doc_name, page) ==
    IF Len(text) > 0 /\ WordCount(Join(text, " ")) > MinWords
    THEN Append(cs, Chunk(heading, Join(text, " "), doc_name, page))
    ELSE cs

-----------------------------------------------------------------------------
(* parse_pdfs: its steps *)

ParseLocals == << doc_idx, page_num, block_idx, body_font_size, current_heading,
                  current_text >>
MainState == << pdf_files, descriptor, oracle, persona, task_description, query,
                domain, chunks, final_results, output >>

CurDoc == pdf_files[doc_idx]
doc_name == Basename(CurDoc.path)
CurPage == CurDoc.pages[page_num + 1]
blocks == CurPage.blocks
block == blocks[block_idx]

\* except Exception as e: print(f"    Error parsing {doc_name}: {e}"), then the next pdf_path
Except ==
    /\ log' = Append(log, doc_name)
    /\ doc_idx' = doc_idx + 1
    /\ pc' = "parse_doc"

\* fitz.open(pdf_path) raises
OpenFails ==
    /\ pc = "parse_doc" /\ doc_idx <= Len(pdf_files)
    /\ ~CurDoc.openable
    /\ Except
    /\ UNCHANGED << page_num, block_idx, body_font_size, current_heading, current_text,
                    all_chunks, MainState >>

\* with fitz.open(pdf_path) as doc: enumerate(doc) starts
OpenDoc ==
    /\ pc = "parse_doc" /\ doc_idx <= Len(pdf_files)
    /\ CurDoc.openable
    /\ page_num' = 0
    /\ pc' = "parse_page"
    /\ UNCHANGED << doc_idx, block_idx, body_font_size, current_heading, current_text,
                    all_chunks, log, MainState >>

\* the loop over pdf_paths is over: return all_chunks
ParseReturn ==
    /\ pc = "parse_doc" /\ doc_idx > Len(pdf_files)
    /\ pc' = "parsed"
    /\ UNCHANGED << ParseLocals, all_chunks, log, MainState >>

\* page.get_text("dict") raises
PageFails ==
    /\ pc = "parse_page" /\ page_num < Len(CurDoc.pages)
    /\ ~CurPage.readable
    /\ Except
    /\ UNCHANGED << page_num, block_idx, body_font_size, current_heading, current_text,
                    all_chunks, MainState >>

\* if not blocks: continue / if not font_sizes: continue
SkipPage ==
    /\ pc = "parse_page" /\ page_num < Len(CurDoc.pages)
    /\ CurPage.readable
    /\ Len(FontSizes(blocks)) = 0
    /\ page_num' = page_num + 1
    /\ UNCHANGED << pc, doc_idx, block_idx, body_font_size, current_heading, current_text,
                    all_chunks, log, MainState >>

\* body_font_size, current_heading and current_text are set for the page
StartPage ==
    /\ pc = "parse_page" /\ page_num < Len(CurDoc.pages)
    /\ CurPage.readable
    /\ Len(FontSizes(blocks)) > 0
    /\ body_font_size' = MostCommon(FontSizes(blocks))
    /\ current_heading' = "General Information"
    /\ current_text' = <<>>
    /\ block_idx' = 1
    /\ pc' = "parse_block"
    /\ UNCHANGED << doc_idx, page_num, all_chunks, log, MainState >>

\* the document has no more pages
EndDoc ==
    /\ pc = "parse_page" /\ page_num >= Len(CurDoc.pages)
    /\ doc_idx' = doc_idx + 1
    /\ pc' = "parse_doc"
    /\ UNCHANGED << page_num, block_idx, body_font_size, current_heading, current_text,
                    all_chunks, log, MainState >>

\* if 'lines' not in block: continue / if not block_text: continue
SkipBlock ==
    /\ pc = "parse_block" /\ block_idx <= Len(blocks)
    /\ IF block.has_lines THEN BlockText(block) = "" ELSE TRUE
    /\ block_idx' = block_idx + 1
    /\ UNCHANGED << pc, doc_idx, page_num, body_font_size, current_heading, current_text,
                    all_chunks, log, MainState >>

\* block['lines'][0]['spans'][0] raises IndexError: the first line has no span
BlockRaises ==
    /\ pc = "parse_block" /\ block_idx <= Len(blocks)
    /\ block.has_lines /\ BlockText(block) # ""
    /\ FirstSpanMissing(block)
    /\ Except
    /\ UNCHANGED << page_num, block_idx, body_font_size, current_heading, current_text,
                    all_chunks, MainState >>

\* if is_heading: flush, then current_heading = block_text, current_text = []
HeadingBlock ==
    /\ pc = "parse_block" /\ block_idx <= Len(blocks)
    /\ block.has_lines /\ BlockText(block) # ""
    /\ ~FirstSpanMissing(block)
    /\ IsHeading(BlockText(block), BlockFontSize(block), body_font_size)
    /\ all_chunks' = Flushed(all_chunks, current_heading, current_text, doc_name, page_num + 1)
    /\ current_heading' = BlockText(block)
    /\ current_text' = <<>>
    /\ block_idx' = block_idx + 1
    /\ UNCHANGED << pc, doc_idx, page_num, body_font_size, log, MainState >>

\* else: current_text.append(block_text)
BodyBlock ==
    /\ pc = "parse_block" /\ block_idx <= Len(blocks)
    /\ block.has_lines /\ BlockText(block) # ""
    /\ ~FirstSpanMissing(block)
    /\ ~IsHeading(BlockText(block), BlockFontSize(block), body_font_size)
    /\ current_text' = Append(current_text, BlockText(block))
    /\ block_idx' = block_idx + 1
    /\ UNCHANGED << pc, doc_idx, page_num, body_font_size, current_heading,
                    all_chunks, log, MainState >>

\* after the last block of the page: flush, then the next page
EndPage ==
    /\ pc = "parse_block" /\ block_idx > Len(blocks)
    /\ all_chunks' = Flushed(all_chunks, current_heading, current_text, doc_name, page_num + 1)
    /\ page_num' = page_num + 1
    /\ pc' = "parse_page"
    /\ UNCHANGED << doc_idx, block_idx, body_font_size, current_heading, current_text,
                    log, MainState >>

ParseStep ==
    \/ OpenFails \/ OpenDoc \/ ParseReturn
    \/ PageFails \/ SkipPage \/ StartPage \/ EndDoc
    \/ SkipBlock \/ BlockRaises \/ HeadingBlock \/ BodyBlock \/ EndPage

-----------------------------------------------------------------------------
(* apply_intelligent_scoring *)

travel_bonus_keywords ==
    {"nightlife", "bars", "beach", "adventure", "coastal", "party", "entertainment",
     "music", "boat", "wine", "culinary", "restaurants", "cities", "guide", "tips"}
travel_penalty_keywords == {"family-friendly", "children", "kids", "educational"}
\* the items of the dict, in insertion order; bonuses in hundredths
travel_doc_bonuses ==
    << [key |-> "Restaurants and Hotels", bonus |-> 25],
       [key |-> "Cities", bonus |-> 20],
       [key |-> "Things to Do", bonus |-> 15],
       [key |-> "Cuisine", bonus |-> 15],
       [key |-> "Tips and Tricks", bonus |-> 10] >>

culinary_negative_keywords ==
    {"beef", "pork", "chicken", "lamb", "turkey", "veal", "prosciutto", "salami",
     "bacon", "ham", "sausage", "fish", "tuna", "seafood", "shrimp", "anchovies",
     "salmon", "lobster", "duck"}
culinary_substantial_keywords ==
    {"lasagna", "casserole", "sushi", "rolls", "curry", "stew", "risotto", "pasta",
     "cheese", "potatoes", "beans", "lentils", "rice", "falafel", "ratatouille",
     "gnocchi", "tikka"}
culinary_gluten_keywords ==
    {"flour", "wheat", "bread", "pasta", "breadcrumbs", "pita", "baguette", "couscous",
     "tortilla", "freekeh", "roux", "beer"}

hr_forms_bonus_keywords ==
    {"form", "fillable", "sign", "signature", "interactive", "field", "onboarding",
     "compliance", "checklist", "e-signature", "prepare forms"}
hr_forms_penalty_keywords == {"error", "unable", "failed", "recipe", "dish", "ingredients"}

TravelPenalty == 100
TravelBonus == 20
SubstantialBonus == 20
GlutenPenalty == 5
HrBonus == 15
HrPenalty == 10
PrefixLen == 500

\* the keys of the similarity table
OracleKeys == {0, 1}

\* cosine_similarity(get_embedding(text[:500]), get_embedding(query)), in hundredths:
\* the embedding model is external and deterministic, so the similarity is a fixed
\* function of text[:500] and the query; oracle ranges over such functions
Relevance(text, q) ==
    oracle[(Len(SubSeq(text, 1, IF Len(text) < PrefixLen THEN Len(text) ELSE PrefixLen))
            + Len(q)) % Cardinality(OracleKeys)]

\* (chunk['title'] + ' ' + chunk['text']).lower()
TextLower(chunk) == Lower(chunk.title \o " " \o chunk.text)

RECURSIVE DocBonusFrom(_, _)
\* the bonus of the first key of travel_doc_bonuses found in the document name
DocBonusFrom(items, document) ==
    IF Len(items) = 0 THEN 0
    ELSE IF Contains(document, Head(items).key) THEN Head(items).bonus
    ELSE DocBonusFrom(Tail(items), document)

\* the travel adjustment with the bonus keywords matched against the text alone
TravelAdjustmentTextOnly(chunk) ==
    (IF ContainsAny(TextLower(chunk), travel_penalty_keywords) THEN 0 - TravelPenalty ELSE 0)
    + TravelBonus * CountIn(Lower(chunk.text), travel_bonus_keywords)
    + DocBonusFrom(travel_doc_bonuses, chunk.document)

\* the travel branch: penalty, bonus per keyword, document bonus
TravelAdjustment(chunk) ==
    (IF ContainsAny(TextLower(chunk), travel_penalty_keywords) THEN 0 - TravelPenalty ELSE 0)
    + TravelBonus * CountIn(TextLower(chunk), travel_bonus_keywords)
    + DocBonusFrom(travel_doc_bonuses, chunk.document)

\* the culinary branch, for a chunk that is not excluded
CulinaryAdjustment(chunk) ==
    SubstantialBonus * CountIn(TextLower(chunk), culinary_substantial_keywords)
    - GlutenPenalty * CountIn(TextLower(chunk), culinary_gluten_keywords)

\* the hr_forms branch
HrFormsAdjustment(chunk) ==
    HrBonus * CountIn(TextLower(chunk), hr_forms_bonus_keywords)
    - HrPenalty * CountIn(TextLower(chunk), hr_forms_penalty_keywords)

\* a culinary exclusion that looks at the text alone, in its original case
ExcludedCaseSensitive(chunk, dom) ==
    dom = "culinary" /\ ContainsAny(chunk.text, culinary_negative_keywords)

\* if any(kw in text_lower for kw in culinary_negative_keywords): continue
Excluded(chunk, dom) ==
    dom = "culinary" /\ ContainsAny(TextLower(chunk), culinary_negative_keywords)

\* total_score of a chunk that is kept
TotalScore(chunk, q, dom) ==
    Relevance(chunk.text, q)
    + (IF dom = "travel" THEN TravelAdjustment(chunk)
       ELSE IF dom = "culinary" THEN CulinaryAdjustment(chunk)
       ELSE IF dom = "hr_forms" THEN HrFormsAdjustment(chunk)
       ELSE 0)

\* chunk['final_score'] = total_score
Scored(chunk, q, dom) ==
    [title |-> chunk.title, text |-> chunk.text, document |-> chunk.document,
     page |-> chunk.page, final_score |-> TotalScore(chunk, q, dom)]

RECURSIVE ScoreLoop(_, _, _)
\* for chunk in chunks: ...; final_results.append(chunk)
ScoreLoop(cs, q, dom) ==
    IF Len(cs) = 0 THEN <<>>
    ELSE IF Excluded(Head(cs), dom) THEN ScoreLoop(Tail(cs), q, dom)
    ELSE <<Scored(Head(cs), q, dom)>> \o ScoreLoop(Tail(cs), q, dom)

RECURSIVE Reverse(_)
Reverse(xs) == IF Len(xs) = 0 THEN <<>> ELSE Append(Reverse(Tail(xs)), Head(xs))

RECURSIVE InsertAscending(_, _)
\* x put after every element of the ascending list whose key is not greater
InsertAscending(sorted, x) ==
    IF Len(sorted) = 0 THEN <<x>>
    ELSE IF Head(sorted).final_score <= x.final_score
         THEN <<Head(sorted)>> \o InsertAscending(Tail(sorted), x)
         ELSE <<x>> \o sorted

RECURSIVE StableAscending(_, _)
\* a stable ascending sort by final_score
StableAscending(xs, acc) ==
    IF Len(xs) = 0 THEN acc ELSE StableAscending(Tail(xs), InsertAscending(acc, Head(xs)))

\* a descending sort made of an ascending sort and one reversal: ties come out reversed
SortDescendingReversed(xs) == Reverse(StableAscending(xs, <<>>))

\* list.sort(key=final_score, reverse=True): the list is reversed, sorted stably in
\* ascending order and reversed again, so equal keys keep their original order
SortDescending(xs) == Reverse(StableAscending(Reverse(xs), <<>>))

apply_intelligent_scoring(cs, q, dom) == SortDescending(ScoreLoop(cs, q, dom))

-----------------------------------------------------------------------------
(* main *)

TopK == 5

generic_titles == {"Document Section", "General Information"}

\* json.load, data.get('persona', {}).get('role', persona) or
\* data.get('job_to_be_done', {}).get('task', task_description) raises: the file is
\* not JSON, the document is not an object, or a present persona / job_to_be_done
\* is not an object
DescriptorRaises(d) ==
    \/ d.kind = "invalid"
    \/ d.kind = "json" /\ ~d.is_object
    \/ d.kind = "json" /\ d.is_object /\ d.persona.present /\ ~d.persona.is_object
    \/ d.kind = "json" /\ d.is_object /\ d.job.present /\ ~d.job.is_object

\* x.get(key, {}).get(field, default)
GetNested(entry, default) ==
    IF entry.present /\ entry.has_field THEN entry.value ELSE default

\* no .json file in the input directory: the defaults stay
LoadNoDescriptor ==
    /\ pc = "main"
    /\ descriptor.kind = "missing"
    /\ pc' = "detect"
    /\ UNCHANGED << pdf_files, descriptor, oracle, persona, task_description, query, domain,
                    all_chunks, ParseLocals, log, chunks, final_results, output >>

\* the descriptor is read and persona, task_description and query are set from it
LoadDescriptor ==
    /\ pc = "main"
    /\ descriptor.kind # "missing"
    /\ ~DescriptorRaises(descriptor)
    /\ persona' = GetNested(descriptor.persona, persona)
    /\ task_description' = GetNested(descriptor.job, task_description)
    /\ query' = "Persona: " \o persona' \o ". Task: " \o task_description'
    /\ pc' = "detect"
    /\ UNCHANGED << pdf_files, descriptor, oracle, domain, all_chunks, ParseLocals, log,
                    chunks, final_results, output >>

\* reading the descriptor raises and nothing catches it: main ends with a traceback
LoadDescriptorRaises ==
    /\ pc = "main"
    /\ descriptor.kind # "missing"
    /\ DescriptorRaises(descriptor)
    /\ pc' = "crashed"
    /\ UNCHANGED << pdf_files, descriptor, oracle, persona, task_description, query, domain,
                    all_chunks, ParseLocals, log, chunks, final_results, output >>

\* domain = detect_domain(query), then parse_pdfs(pdf_files) is entered
DetectDomain ==
    /\ pc = "detect"
    /\ domain' = detect_domain(query)
    /\ all_chunks' = <<>>
    /\ doc_idx' = 1
    /\ pc' = "parse_doc"
    /\ UNCHANGED << pdf_files, descriptor, oracle, persona, task_description, query,
                    page_num, block_idx, body_font_size, current_heading, current_text,
                    log, chunks, final_results, output >>

\* final_results = apply_intelligent_scoring(doc_chunks, query, domain)
Score ==
    /\ pc = "parsed"
    /\ chunks' = all_chunks
    /\ final_results' = apply_intelligent_scoring(all_chunks, query, domain)
    /\ pc' = "scored"
    /\ UNCHANGED << pdf_files, descriptor, oracle, persona, task_description, query, domain,
                    all_chunks, ParseLocals, log, output >>

\* [r for r in final_results if r.get('title') not in [...]]
QualityFilter(rs) == SelectSeq(rs, LAMBDA r : r.title \notin generic_titles)

\* final_results[:5]
TopResults(rs) == SubSeq(rs, 1, IF Len(rs) < TopK THEN Len(rs) ELSE TopK)

\* extracted_sections whose ranks start at 0
ExtractedSectionsFromZero(top_results) ==
    [i \in 1..Len(top_results) |->
        [document |-> top_results[i].document, section_title |-> top_results[i].title,
         importance_rank |-> i - 1, page_number |-> top_results[i].page]]

\* extracted_sections: importance_rank is i + 1 for the 0-based i of enumerate
ExtractedSections(top_results) ==
    [i \in 1..Len(top_results) |->
        [document |-> top_results[i].document, section_title |-> top_results[i].title,
         importance_rank |-> i, page_number |-> top_results[i].page]]

SubsectionAnalysis(top_results) ==
    [i \in 1..Len(top_results) |->
        [document |-> top_results[i].document, refined_text |-> Strip(top_results[i].text),
         page_number |-> top_results[i].page]]

\* the quality filter, the truncation and the output document (the timestamp is left
\* out; input_documents is given as the set of the names, which the code sorts)
Emit ==
    /\ pc = "scored"
    /\ final_results' = QualityFilter(final_results)
    /\ output' =
         << [metadata |->
               [input_documents |-> {Basename(pdf_files[i].path) : i \in 1..Len(pdf_files)},
                job_to_be_done |-> task_description,
                persona |-> persona],
             extracted_sections |-> ExtractedSections(TopResults(final_results')),
             subsection_analysis |-> SubsectionAnalysis(TopResults(final_results'))] >>
    /\ pc' = "done"
    /\ UNCHANGED << pdf_files, descriptor, oracle, persona, task_description, query, domain,
                    all_chunks, ParseLocals, log, chunks >>

-----------------------------------------------------------------------------
(* The inputs the specifications range over *)

MaxBlocks == 3
MaxDocs == 2
MaxChunks == 3
MaxQueryParts == 3

RECURSIVE Filler(_)
\* n words, each followed by a space
Filler(n) == IF n = 0 THEN "" ELSE "w " \o Filler(n - 1)

RECURSIVE SeqsUpTo(_, _)
\* the sequences of at most n elements of S
SeqsUpTo(S, n) ==
    IF n = 0 THEN {<<>>}
    ELSE LET shorter == SeqsUpTo(S, n - 1)
         IN shorter \cup {Append(q, x) : q \in {r \in shorter : Len(r) = n - 1}, x \in S}

RECURSIVE DistinctSeqsUpTo(_, _)
\* the sequences of at most n elements of S, no element twice
DistinctSeqsUpTo(S, n) ==
    IF n = 0 THEN {<<>>}
    ELSE LET shorter == DistinctSeqsUpTo(S, n - 1)
             longest == {r \in shorter : Len(r) = n - 1}
         IN shorter \cup
            UNION {{Append(q, x) : x \in S \ {q[i] : i \in 1..Len(q)}} : q \in longest}

Span(size, text) == [size |-> size, text |-> text]
OneLine(spans) == [has_lines |-> TRUE, lines |-> <<spans>>]

B_heading == OneLine(<<Span(1400, "Nightlife Guide")>>)
B_heading2 == OneLine(<<Span(1400, "Family Museums")>>)
B_stop == OneLine(<<Span(1400, "Instructions:")>>)
B_body21 == [has_lines |-> TRUE,
             lines |-> << <<Span(1000, "Visit bars and the beach")>>,
                          <<Span(1004, Filler(16))>> >>]
B_kids21 == OneLine(<<Span(1000, "A kids-friendly museum " \o Filler(18))>>)
B_body20 == OneLine(<<Span(1000, Filler(20))>>)
B_word == OneLine(<<Span(1004, "more")>>)
B_sentence == OneLine(<<Span(1400, "Closing remark.")>>)
B_long == OneLine(<<Span(1400, Filler(15))>>)
B_edge == OneLine(<<Span(1050, "Edge")>>)
B_mixed == OneLine(<<Span(1000, "a"), Span(1196, "b"), Span(1204, "c")>>)
B_blank == OneLine(<<Span(1000, "  ")>>)
B_image == [has_lines |-> FALSE, lines |-> <<>>]
B_broken == [has_lines |-> TRUE, lines |-> << <<>>, <<Span(1000, "tail")>> >>]

BlockCatalogue ==
    {B_heading, B_stop, B_body21, B_body20, B_word, B_sentence, B_long, B_edge,
     B_mixed, B_blank, B_image, B_broken}

Page(bs) == [readable |-> TRUE, blocks |-> bs]
UnreadablePage == [readable |-> FALSE, blocks |-> <<>>]
Doc(path, pages) == [path |-> path, openable |-> TRUE, pages |-> pages]
UnopenableDoc(path) == [path |-> path, openable |-> FALSE, pages |-> <<>>]

\* one document of one page, of every block sequence; or one that cannot be read
PageInputs ==
    {<<Doc("./input/Guide.pdf", <<Page(bs)>>)>> : bs \in SeqsUpTo(BlockCatalogue, MaxBlocks)}
    \cup {<<Doc("./input/Guide.pdf", <<UnreadablePage>>)>>,
          <<UnopenableDoc("./input/Guide.pdf")>>}

P_two == Page(<<B_heading, B_body21, B_heading2, B_kids21>>)
P_general == Page(<<B_image, B_body21, B_heading, B_blank, B_body21>>)
P_broken == Page(<<B_body21, B_heading, B_broken>>)

\* the pages of the documents of the pipeline runs
DocCatalogue ==
    { <<P_two, P_two, P_two>>,
      <<Page(<<B_image>>), P_general>>,
      <<P_general, UnreadablePage, P_two>>,
      <<P_broken>>,
      <<>> }

PathNames == <<"./input/Guide.pdf", "./input/Cities.pdf", "./input/Menu.pdf", "./input/Notes.pdf">>

\* the directory listings: at most MaxDocs documents, one of them possibly not openable
DocInputs ==
    LET contents == {[openable |-> TRUE, pages |-> ps] : ps \in DocCatalogue}
                        \cup {[openable |-> FALSE, pages |-> <<>>]}
        lists == UNION {[1..n -> contents] : n \in 0..MaxDocs}
    IN {[i \in 1..Len(l) |->
            [path |-> PathNames[i], openable |-> l[i].openable, pages |-> l[i].pages]] :
        l \in lists}

Entry(present, is_object, has_field, value) ==
    [present |-> present, is_object |-> is_object, has_field |-> has_field, value |-> value]
Absent == Entry(FALSE, FALSE, FALSE, "")
JsonObject(p, j) == [kind |-> "json", is_object |-> TRUE, persona |-> p, job |-> j]

\* the descriptors of the input directory
Descriptors ==
    { [kind |-> "missing", is_object |-> FALSE, persona |-> Absent, job |-> Absent],
      [kind |-> "invalid", is_object |-> FALSE, persona |-> Absent, job |-> Absent],
      [kind |-> "json", is_object |-> FALSE, persona |-> Absent, job |-> Absent],
      JsonObject(Entry(TRUE, FALSE, FALSE, ""), Entry(TRUE, TRUE, TRUE, "Plan a trip")),
      JsonObject(Absent, Absent),
      JsonObject(Entry(TRUE, TRUE, TRUE, "Planner"), Entry(TRUE, TRUE, TRUE, "family trip itinerary")),
      JsonObject(Entry(TRUE, TRUE, TRUE, "Chef"), Entry(TRUE, TRUE, TRUE, "vegetarian buffet menu")),
      JsonObject(Entry(TRUE, TRUE, FALSE, ""), Entry(TRUE, TRUE, TRUE, "fillable forms")) }

SimValues == {0, 20}
Oracles == [OracleKeys -> SimValues]

K_night == Chunk("Nightlife Guide", "Visit bars and the beach " \o Filler(16), "Guide.pdf", 0)
K_kids == Chunk("Family Museums", "A kids-friendly museum " \o Filler(18), "Cities.pdf", 0)
K_beef == Chunk("Dinner", "Beef stew with rice " \o Filler(17), "Menu.pdf", 0)
K_veg == Chunk("Lasagna", "Vegetable pasta recipe form " \o Filler(17), "Menu.pdf", 0)
K_plain == Chunk("General Information", Filler(21), "Guide.pdf", 0)

ChunkCatalogue == {K_night, K_kids, K_beef, K_veg, K_plain}

\* the chunk lists handed to the scorer: distinct chunks, the page of each its position
ChunkInputs ==
    {[i \in 1..Len(l) |-> Chunk(l[i].title, l[i].text, l[i].document, i)] :
        l \in DistinctSeqsUpTo(ChunkCatalogue, MaxChunks)}

QueryOf ==
    [d \in Domains |->
        IF d = "travel" THEN "Persona: Planner. Task: family trip itinerary"
        ELSE IF d = "culinary" THEN "Persona: Chef. Task: vegetarian buffet menu"
        ELSE IF d = "hr_forms" THEN "Persona: HR. Task: fillable forms"
        ELSE "Analyze documents"]

QueryFragments == {"Trip ", "MENU ", "hr ", "three ", "Information ", "plan ", "Dish ", "x"}

RECURSIVE Concat(_)
Concat(parts) == IF Len(parts) = 0 THEN "" ELSE Head(parts) \o Concat(Tail(parts))

Queries == {Concat(l) : l \in SeqsUpTo(QueryFragments, MaxQueryParts)}

-----------------------------------------------------------------------------
(* The specifications *)

\* the values main starts from (line 180) and the locals before they are set
Defaults ==
    /\ persona = "Professional"
    /\ task_description = "Document Analysis"
    /\ query = "Analyze documents"
    /\ domain = "unset"
    /\ all_chunks = <<>>
    /\ doc_idx = 1
    /\ page_num = 0
    /\ block_idx = 1
    /\ body_font_size = 0
    /\ current_heading = "General Information"
    /\ current_text = <<>>
    /\ log = <<>>
    /\ chunks = <<>>
    /\ final_results = <<>>
    /\ output = <<>>

NoDescriptor == [kind |-> "missing", is_object |-> FALSE, persona |-> Absent, job |-> Absent]

\* main on an input directory
Init ==
    /\ pc = "main"
    /\ pdf_files \in DocInputs
    /\ descriptor \in Descriptors
    /\ oracle \in Oracles
    /\ Defaults

Next ==
    \/ LoadNoDescriptor \/ LoadDescriptor \/ LoadDescriptorRaises \/ DetectDomain
    \/ OpenFails \/ OpenDoc \/ ParseReturn
    \/ PageFails \/ SkipPage \/ StartPage \/ EndDoc
    \/ SkipBlock \/ BlockRaises \/ HeadingBlock \/ BodyBlock \/ EndPage
    \/ Score \/ Emit

Spec == Init /\ [][Next]_vars

\* parse_pdfs on one document of one page
InitPage ==
    /\ pc = "parse_doc"
    /\ pdf_files \in PageInputs
    /\ descriptor = NoDescriptor
    /\ oracle = [k \in OracleKeys |-> 0]
    /\ Defaults

SpecPage == InitPage /\ [][ParseStep]_vars

\* apply_intelligent_scoring(chunks, query, domain) is called and returns
ApplyScoring ==
    /\ pc = "call_score"
    /\ final_results' = apply_intelligent_scoring(chunks, query, domain)
    /\ pc' = "returned"
    /\ UNCHANGED << pdf_files, descriptor, oracle, persona, task_description, query, domain,
                    all_chunks, ParseLocals, log, chunks, output >>

InitScore ==
    /\ pc = "call_score"
    /\ pdf_files = <<>>
    /\ descriptor = NoDescriptor
    /\ oracle \in Oracles
    /\ persona = "Professional"
    /\ task_description = "Document Analysis"
    /\ domain \in Domains
    /\ query = QueryOf[domain]
    /\ chunks \in ChunkInputs
    /\ all_chunks = <<>> /\ doc_idx = 1 /\ page_num = 0 /\ block_idx = 1
    /\ body_font_size = 0 /\ current_heading = "General Information"
    /\ current_text = <<>> /\ log = <<>> /\ final_results = <<>> /\ output = <<>>

SpecScore == InitScore /\ [][ApplyScoring]_vars

\* detect_domain(query) is called and returns
ApplyDetect ==
    /\ pc = "call_detect"
    /\ domain' = detect_domain(query)
    /\ pc' = "returned"
    /\ UNCHANGED << pdf_files, descriptor, oracle, persona, task_description, query,
                    all_chunks, ParseLocals, log, chunks, final_results, output >>

InitDomain ==
    /\ pc = "call_detect"
    /\ pdf_files = <<>>
    /\ descriptor = NoDescriptor
    /\ oracle = [k \in OracleKeys |-> 0]
    /\ persona = "Professional"
    /\ task_description = "Document Analysis"
    /\ query \in Queries
    /\ domain = "unset"
    /\ all_chunks = <<>> /\ doc_idx = 1 /\ page_num = 0 /\ block_idx = 1
    /\ body_font_size = 0 /\ current_heading = "General Information"
    /\ current_text = <<>> /\ log = <<>> /\ chunks = <<>> /\ final_results = <<>>
    /\ output = <<>>

SpecDomain == InitDomain /\ [][ApplyDetect]_vars

-----------------------------------------------------------------------------
(* The claims *)

\* C1: no chunk of all_chunks carries the name of a document whose extraction
\* failed (a document named by an "Error parsing" print).
C1_NoChunkOfFailedDocument ==
    \A i \in 1..Len(all_chunks) : \A j \in 1..Len(log) :
        all_chunks[i].document # log[j]

\* the block under the cursor is a text block that parse_pdfs classifies
AtTextBlock ==
    /\ pc = "parse_block" /\ block_idx <= Len(blocks)
    /\ block.has_lines /\ BlockText(block) # "" /\ ~FirstSpanMissing(block)

\* C2: every emitted chunk has more than 20 words; an accumulator of 20 words or
\* fewer is dropped when a heading arrives or the page ends: the step emits
\* nothing and the accumulator is empty when the next text is gathered.
C2_MinimumLength ==
    [][ /\ \A i \in 1..Len(all_chunks') : WordCount(all_chunks'[i].text) > 20
        /\ ( /\ AtTextBlock
             /\ IsHeading(BlockText(block), BlockFontSize(block), body_font_size)
             /\ WordCount(Join(current_text, " ")) <= 20 )
           => (all_chunks' = all_chunks /\ current_text' = <<>>)
        /\ ( /\ pc = "parse_block" /\ block_idx > Len(blocks)
             /\ WordCount(Join(current_text, " ")) <= 20 )
           => all_chunks' = all_chunks
        /\ (pc = "parse_page" /\ pc' = "parse_block") => current_text' = <<>>
      ]_vars

\* C2's case: a 20-word accumulator met a heading and was dropped, and the text
\* after the heading was emitted
C2_Witness ==
    /\ pc = "parsed"
    /\ pdf_files[1].openable /\ Len(pdf_files[1].pages) = 1
    /\ pdf_files[1].pages[1].blocks = <<B_body20, B_heading, B_body21>>
    /\ Len(all_chunks) = 1
    /\ all_chunks[1].title = "Nightlife Guide"

\* the travel scenario's chunk: heading "Nightlife Guide", a body that mentions
\* bars and beach, no penalty keyword, a document name with no bonus key
C3_Scenario(r) ==
    /\ r.title = "Nightlife Guide"
    /\ Contains(Lower(r.text), "bars") /\ Contains(Lower(r.text), "beach")
    /\ \A kw \in travel_penalty_keywords : ~Contains(Lower(r.title \o " " \o r.text), kw)
    /\ \A i \in 1..Len(travel_doc_bonuses) : ~Contains(r.document, travel_doc_bonuses[i].key)

\* C3 as stated: the scenario's chunk scores its base similarity plus 0.4.
C3_PlusTwoKeywords ==
    (pc = "returned" /\ domain = "travel") =>
        \A i \in 1..Len(final_results) :
            C3_Scenario(final_results[i]) =>
                final_results[i].final_score = Relevance(final_results[i].text, query) + 40

\* C3 amended: the scenario's chunk, its body holding no bonus keyword besides bars
\* and beach, scores its base similarity plus 0.8: the title adds nightlife and guide.
C3_PlusFourKeywords ==
    (pc = "returned" /\ domain = "travel") =>
        \A i \in 1..Len(final_results) :
            ( /\ C3_Scenario(final_results[i])
              /\ Cardinality({kw \in travel_bonus_keywords :
                     Contains(Lower(final_results[i].text), kw)}) = 2 )
            => final_results[i].final_score = Relevance(final_results[i].text, query) + 80

C3_Witness ==
    /\ pc = "returned" /\ domain = "travel"
    /\ \E i \in 1..Len(final_results) :
        /\ C3_Scenario(final_results[i])
        /\ final_results[i].final_score = Relevance(final_results[i].text, query) + 80

\* a descriptor that is not parseable or whose persona / job_to_be_done has an
\* unexpected shape
C4_Malformed ==
    \/ descriptor.kind = "invalid"
    \/ /\ descriptor.kind = "json"
       /\ \/ ~descriptor.is_object
          \/ descriptor.persona.present /\ ~descriptor.persona.is_object
          \/ descriptor.job.present /\ ~descriptor.job.is_object

\* C4: with no descriptor or a malformed one the run does not fail and goes on
\* with persona "Professional", task "Document Analysis", query "Analyze documents".
C4_DescriptorFallback ==
    (pc # "main" /\ (descriptor.kind = "missing" \/ C4_Malformed)) =>
        /\ pc # "crashed"
        /\ persona = "Professional"
        /\ task_description = "Document Analysis"
        /\ query = "Analyze documents"

\* the position, in the chunks argument, of a returned chunk
InputPosition(r) == CHOOSE k \in 1..Len(chunks) : chunks[k].page = r.page

\* C5: the returned list is non-increasing in final_score and chunks of equal
\* final_score keep the order they had in the input.
C5_SortedStable ==
    pc = "returned" =>
        \A i, j \in 1..Len(final_results) :
            i < j =>
                /\ final_results[i].final_score >= final_results[j].final_score
                /\ final_results[i].final_score = final_results[j].final_score
                   => InputPosition(final_results[i]) < InputPosition(final_results[j])

\* C5's case: two returned chunks tie, and the sort moved a later chunk ahead
C5_Witness ==
    /\ pc = "returned"
    /\ \E i, j \in 1..Len(final_results) :
        i < j /\ final_results[i].final_score = final_results[j].final_score
    /\ \E i, j \in 1..Len(final_results) :
        /\ i < j
        /\ final_results[i].final_score > final_results[j].final_score
        /\ InputPosition(final_results[i]) > InputPosition(final_results[j])

\* the chunk has a culinary negative keyword in its title plus text
HasNegative(c) ==
    \E kw \in culinary_negative_keywords : Contains(Lower(c.title \o " " \o c.text), kw)

\* the input chunk is among the returned ones
Returned(c) ==
    \E i \in 1..Len(final_results) :
        /\ final_results[i].title = c.title /\ final_results[i].text = c.text
        /\ final_results[i].document = c.document /\ final_results[i].page = c.page

\* C6: in the culinary domain exactly the chunks without a negative keyword are
\* returned; in the other domains every input chunk is returned.
C6_CulinaryExclusion ==
    pc = "returned" =>
        IF domain = "culinary"
        THEN \E clean \in {{k \in 1..Len(chunks) : ~HasNegative(chunks[k])}} :
                /\ \A k \in 1..Len(chunks) : Returned(chunks[k]) <=> k \in clean
                /\ Len(final_results) = Cardinality(clean)
        ELSE /\ \A k \in 1..Len(chunks) : Returned(chunks[k])
             /\ Len(final_results) = Len(chunks)

\* C6's case: a culinary run in which a chunk mentioning beef was dropped and
\* another chunk was kept
C6_Witness ==
    /\ pc = "returned" /\ domain = "culinary"
    /\ \E k \in 1..Len(chunks) :
        Contains(Lower(chunks[k].text), "beef") /\ ~Returned(chunks[k])
    /\ \E k \in 1..Len(chunks) : Returned(chunks[k])

\* C7: a block whose first span is more than 0.5 above the body font, fewer than 15 words,
\* no final period and a stop-list text (lowercased, trailing colons stripped)
\* leaves the heading and the chunks alone and is appended to the accumulator.
C7_StopListBlock ==
    [][ ( /\ AtTextBlock
          /\ block.lines[1][1].size > 10 * body_font_size + 50
          /\ WordCount(BlockText(block)) < 15
          /\ ~EndsWith(BlockText(block), ".")
          /\ RStrip(Lower(BlockText(block)), {":"})
                \in {"instructions", "ingredients", "directions", "notes"} )
        => /\ current_heading' = current_heading
           /\ all_chunks' = all_chunks
           /\ current_text' = Append(current_text, BlockText(block))
      ]_vars

\* C7's case: the text before and after "Instructions:" came out as one chunk
C7_Witness ==
    /\ pc = "parsed"
    /\ \E i \in 1..Len(all_chunks) :
        /\ all_chunks[i].title = "General Information"
        /\ Contains(all_chunks[i].text, "w Instructions: more")

\* the indices of the ranked list that survive the quality filter
Surviving(ranked) ==
    {k \in 1..Len(ranked) : ranked[k].title \notin {"Document Section", "General Information"}}

\* the i-th surviving index
NthSurviving(ranked, i) ==
    CHOOSE k \in Surviving(ranked) : Cardinality({m \in Surviving(ranked) : m < k}) = i - 1

\* C8: the step that writes the output lists the first 5 surviving chunks of the
\* ranked list, in ranked order and with ranks 1..n, in extracted_sections and in
\* subsection_analysis; with no surviving chunk both are empty.
C8_TopFive ==
    [][ pc = "scored" =>
          LET ranked == final_results
              n == IF Cardinality(Surviving(ranked)) < 5
                   THEN Cardinality(Surviving(ranked)) ELSE 5
          IN /\ Len(output') = 1
             /\ Len(output'[1].extracted_sections) = n
             /\ Len(output'[1].subsection_analysis) = n
             /\ \A i \in 1..n :
                 LET r == ranked[NthSurviving(ranked, i)] IN
                 /\ output'[1].extracted_sections[i] =
                       [document |-> r.document, section_title |-> r.title,
                        importance_rank |-> i, page_number |-> r.page]
                 /\ output'[1].subsection_analysis[i].document = r.document
                 /\ output'[1].subsection_analysis[i].page_number = r.page
      ]_vars

\* C8's case: more than 5 chunks survive, a generic one was dropped, 5 are listed
C8_Witness ==
    /\ pc = "done"
    /\ Len(output) = 1
    /\ Len(output[1].extracted_sections) = 5
    /\ Len(final_results) > 5
    /\ \E i \in 1..Len(all_chunks) : all_chunks[i].title = "General Information"

\* the query has a keyword of the set, whatever its case
HasKeyword(kws) == \E kw \in kws : Contains(Lower(query), kw)

\* C9: detect_domain returns one of the four domains: travel exactly when a travel
\* keyword is present, culinary exactly when a culinary keyword and no travel
\* keyword is, hr_forms exactly when only hr_forms keywords are, general otherwise.
C9_DomainPriority ==
    pc = "returned" =>
        /\ domain \in {"travel", "culinary", "hr_forms", "general"}
        /\ domain = "travel" <=> HasKeyword(travel_keywords)
        /\ domain = "culinary" <=>
              (~HasKeyword(travel_keywords) /\ HasKeyword(culinary_keywords))
        /\ domain = "hr_forms" <=>
              (/\ ~HasKeyword(travel_keywords) /\ ~HasKeyword(culinary_keywords)
               /\ HasKeyword(hr_forms_keywords))
        /\ domain = "general" <=>
              (/\ ~HasKeyword(travel_keywords) /\ ~HasKeyword(culinary_keywords)
               /\ ~HasKeyword(hr_forms_keywords))

\* C9's case: a query with both "trip" and "menu" resolved to travel
C9_Witness ==
    /\ pc = "returned"
    /\ Contains(Lower(query), "trip") /\ Contains(Lower(query), "menu")
    /\ domain = "travel"

\* the rounded span sizes of the page, in page order
RoundedSizes == [i \in 1..Len(FontSizes(blocks)) |-> Round1(FontSizes(blocks)[i])]

CountOf(sizes, v) == Cardinality({i \in 1..Len(sizes) : sizes[i] = v})

\* where v occurs for the first time
FirstIndex(sizes, v) == CHOOSE i \in 1..Len(sizes) : sizes[i] = v /\ \A j \in 1..(i - 1) : sizes[j] # v

\* where v occurs for the m-th time
ReachIndex(sizes, v, m) ==
    CHOOSE i \in 1..Len(sizes) :
        sizes[i] = v /\ Cardinality({j \in 1..i : sizes[j] = v}) = m

\* the most frequent of the sizes, and among them the one whose count is complete first
FirstToReachMax(sizes, winner) ==
    \E m \in {CountOf(sizes, winner)} :
        /\ m > 0
        /\ \A v \in {sizes[i] : i \in 1..Len(sizes)} :
            /\ CountOf(sizes, v) <= m
            /\ CountOf(sizes, v) = m => ReachIndex(sizes, winner, m) <= ReachIndex(sizes, v, m)

\* the most frequent of the sizes, and among them the one that occurs first
FirstEncountered(sizes, winner) ==
    \E m \in {CountOf(sizes, winner)} :
        /\ m > 0
        /\ \A v \in {sizes[i] : i \in 1..Len(sizes)} :
            /\ CountOf(sizes, v) <= m
            /\ CountOf(sizes, v) = m => FirstIndex(sizes, winner) <= FirstIndex(sizes, v)

\* C10 as stated: the body font size is a most frequent rounded size, and among the
\* most frequent ones the first to reach the maximum count in page order.
C10_FirstToReachMax ==
    (pc = "parse_block" /\ block_idx = 1) =>
        \E sizes \in {RoundedSizes} : FirstToReachMax(sizes, body_font_size)

\* C10 amended: the body font size is a most frequent rounded size, and among the
\* most frequent ones the one that occurs first in page order.
C10_FirstEncountered ==
    (pc = "parse_block" /\ block_idx = 1) =>
        \E sizes \in {RoundedSizes} : FirstEncountered(sizes, body_font_size)

\* C10's case: the sizes 10, 12, 12, 10 of the claim: two sizes tie, 12 reaches the
\* count first and 10 is the body font size
C10_Witness ==
    /\ pc = "parse_block" /\ block_idx = 1
    /\ RoundedSizes = <<100, 120, 120, 100>>
    /\ body_font_size = 100

====
